---- MODULE Spec2Model ----
(***************************************************************************)
(* A model of simplebot.py: the module-level script, the RSI computation   *)
(* calculate_rsi, the retry wrapper get_data_with_retry and the two        *)
(* polling loops simple_trading_bot and realtime_trading_bot.              *)
(*                                                                         *)
(* Floating point is modelled by exact extended rationals (not-a-number,   *)
(* +/- infinity, n/d): closes are integers, so every intermediate value of *)
(* calculate_rsi is a rational, an infinity or a NaN.  The sign of a zero  *)
(* is not kept: the only place it could matter is the sign of gain/0, and  *)
(* 100/(+inf) and 100/(-inf) are both a zero.                              *)
(***************************************************************************)
EXTENDS Integers, Sequences, FiniteSets, TLC

VARIABLES
    entry,              \* the function (or the script) that is being run
    pc,                 \* the position of the single thread of control
    exc,                \* the exception that is propagating, "none" if none
    trace,              \* the side effects (client calls, prints, sleeps, orders)
                        \* of the current call or polling cycle, in order
    retries,            \* get_data_with_retry: parameter
    attempt,            \* get_data_with_retry: loop variable, -1 before the loop
    status,             \* get_data_with_retry: idle, running, returned, raised
    ret,                \* get_data_with_retry: the value returned
    fetched,            \* the value the client produced on its last successful call
    historical_data,    \* module global, line 24
    rsi,                \* module global, line 48
    bot_data,           \* the loop's local: historical_data (simple), rt_data (realtime)
    bot_rsi,            \* the loop's local rsi
    rsi_arg,            \* the argument calculate_rsi was called with in the current
                        \* polling cycle (before the loop: by the script), None if none
    cycle,              \* polling cycles started
    slept,              \* polling sleeps of 300 s completed
    data,               \* calculate_rsi called on its own: argument data
    window,             \* calculate_rsi called on its own: argument window
    out                 \* calculate_rsi called on its own: result or exception

vars == <<entry, pc, exc, trace, retries, attempt, status, ret, fetched,
          historical_data, rsi, bot_data, bot_rsi, rsi_arg, cycle, slept,
          data, window, out>>

retryVars == <<retries, attempt, status, ret, fetched>>
botVars   == <<historical_data, rsi, bot_data, bot_rsi, rsi_arg, cycle, slept>>
rsiVars   == <<data, window, out>>

----------------------------------------------------------------------------
(* Bounds of the model *)

MaxRetries == 4     \* get_data_with_retry is called with retries in MinRetries..MaxRetries
MaxPrice   == 2     \* a last trade has a price in 1..MaxPrice
MaxCycles  == 2     \* polling cycles a loop may start
MaxFlat    == 4     \* calculate_rsi on its own, default window: up to MaxFlat
MaxUp      == 7     \*   unchanged closes, then up to MaxUp rising closes,
MaxDown    == 7     \*   then up to MaxDown falling closes
MaxExtra   == 2     \* a fetched bar series has window-1 .. window-1+MaxExtra bars
LowMove    == 3     \*   and ends with a rise and a fall of 0, LowMove or
HighMove   == 7     \*   HighMove each
MaxLen     == 4     \* calculate_rsi on its own: series of up to MaxLen closes
MaxClose   == 3     \*   with closes in 1..MaxClose
MaxWindow  == 3     \*   and a window in 1..MaxWindow

MinRetries == 0 - 1

(* Program constants *)

DefaultWindow  == 14    \* def calculate_rsi(data, window=14)
DefaultRetries == 3     \* def get_data_with_retry(symbol, retries=3)
BuyBelow       == 30    \* if rsi < 30
SellAbove      == 70    \* elif rsi > 70
Quantity       == 10    \* place_order(symbol, side, 10)
PollSeconds    == 300   \* time.sleep(300)

----------------------------------------------------------------------------
(* Values handed around by the script *)

None       == [type |-> "None",  price |-> 0, bars |-> <<>>]
Trade(p)   == [type |-> "Trade", price |-> p, bars |-> <<>>]
Aggs(bars) == [type |-> "Aggs",  price |-> 0, bars |-> bars]

(* Side effects *)

Event(ev, what, n) == [ev |-> ev, what |-> what, n |-> n]

(* The exceptions the polygon client raises: the two the script imports and *)
(* any other one.                                                           *)
FetchErrors == {"AuthError", "BadResponse", "OtherError"}

----------------------------------------------------------------------------
(* Extended rationals: the floats of calculate_rsi *)

RECURSIVE GCD(_, _)
GCD(a, b) == IF b = 0 THEN a ELSE GCD(b, a % b)

Abs(x) == IF x < 0 THEN 0 - x ELSE x

NaN  == [k |-> "nan",  n |-> 0, d |-> 1]
PInf == [k |-> "pinf", n |-> 0, d |-> 1]
NInf == [k |-> "ninf", n |-> 0, d |-> 1]

\* n/d with d # 0, in lowest terms with a positive denominator
Num(n, d) ==
    LET g == GCD(Abs(n), Abs(d))
        s == IF d < 0 THEN 0 - 1 ELSE 1
    IN  [k |-> "num", n |-> (s * n) \div g, d |-> (s * d) \div g]

IsNum(x) == x.k = "num"

\* x / y
FDiv(x, y) ==
    IF x.k = "nan" \/ y.k = "nan" THEN NaN
    ELSE IF IsNum(x) /\ IsNum(y) THEN
        IF y.n = 0
        THEN IF x.n = 0 THEN NaN ELSE IF x.n > 0 THEN PInf ELSE NInf
        ELSE Num(x.n * y.d, x.d * y.n)
    ELSE IF IsNum(x) THEN Num(0, 1)                 \* finite / inf
    ELSE IF IsNum(y) THEN                           \* inf / finite
        IF (x.k = "pinf") = (y.n >= 0) THEN PInf ELSE NInf
    ELSE NaN                                        \* inf / inf

\* x + y
FAdd(x, y) ==
    IF x.k = "nan" \/ y.k = "nan" THEN NaN
    ELSE IF IsNum(x) /\ IsNum(y) THEN Num(x.n * y.d + y.n * x.d, x.d * y.d)
    ELSE IF IsNum(x) THEN y
    ELSE IF IsNum(y) THEN x
    ELSE IF x.k = y.k THEN x ELSE NaN               \* inf - inf

\* -x
FNeg(x) ==
    IF x.k = "nan" THEN NaN
    ELSE IF x.k = "pinf" THEN NInf
    ELSE IF x.k = "ninf" THEN PInf
    ELSE Num(0 - x.n, x.d)

\* x < y and x > y: every comparison with a NaN is false
FLess(x, y) ==
    /\ x.k # "nan" /\ y.k # "nan"
    /\ \/ x.k = "ninf" /\ y.k # "ninf"
       \/ y.k = "pinf" /\ x.k # "pinf"
       \/ IsNum(x) /\ IsNum(y) /\ x.n * y.d < y.n * x.d

FGreater(x, y) == FLess(y, x)

----------------------------------------------------------------------------
(* calculate_rsi, lines 38-45 *)

\* df['close'].diff(): NaN at the first index, then C[i] - C[i-1]
diff(C) == [i \in 1..Len(C) |-> IF i = 1 THEN NaN ELSE Num(C[i] - C[i-1], 1)]

\* delta.where(delta > 0, 0): keeps delta where the test is true, 0 elsewhere,
\* and the test is false on a NaN
gain_terms(delta) ==
    [i \in 1..Len(delta) |->
        IF FGreater(delta[i], Num(0, 1)) THEN delta[i] ELSE Num(0, 1)]

\* delta.where(delta < 0, 0), the sign left as it is
loss_terms_unsigned(delta) ==
    [i \in 1..Len(delta) |->
        IF FLess(delta[i], Num(0, 1)) THEN delta[i] ELSE Num(0, 1)]

\* -delta.where(delta < 0, 0)
loss_terms(delta) ==
    [i \in 1..Len(delta) |->
        FNeg(IF FLess(delta[i], Num(0, 1)) THEN delta[i] ELSE Num(0, 1))]

RECURSIVE FSum(_, _, _)
FSum(S, lo, hi) == IF lo > hi THEN Num(0, 1) ELSE FAdd(S[lo], FSum(S, lo + 1, hi))

\* a rolling mean that wants w values before the one at i
rolling_mean_at_strict(S, w, i) ==
    IF i <= w \/ \E j \in (i - w + 1)..i : S[j].k = "nan"
    THEN NaN
    ELSE FDiv(FSum(S, i - w + 1, i), Num(w, 1))

\* S.rolling(window=w).mean() at index i: the mean of the w values ending at
\* i, NaN unless the window holds w values none of which is a NaN
rolling_mean_at(S, w, i) ==
    IF i < w \/ \E j \in (i - w + 1)..i : S[j].k = "nan"
    THEN NaN
    ELSE FDiv(FSum(S, i - w + 1, i), Num(w, 1))

rolling_mean(S, w) == [i \in 1..Len(S) |-> rolling_mean_at(S, w, i)]

\* line 39-40: an empty list makes a frame without a 'close' column
calculate_rsi_raises(C) == Len(C) = 0

\* the ratio taken the wrong way round: rs = loss / gain
rsi_at_inverted(C, w, i) ==
    LET delta == diff(C)
        gain  == rolling_mean_at(gain_terms(delta), w, i)
        loss  == rolling_mean_at(loss_terms(delta), w, i)
        rs    == FDiv(loss, gain)
    IN  FAdd(Num(100, 1), FNeg(FDiv(Num(100, 1), FAdd(Num(1, 1), rs))))

\* rs = gain / loss and 100 - (100 / (1 + rs)), at index i
rsi_at(C, w, i) ==
    LET delta == diff(C)
        gain  == rolling_mean_at(gain_terms(delta), w, i)
        loss  == rolling_mean_at(loss_terms(delta), w, i)
        rs    == FDiv(gain, loss)
    IN  FAdd(Num(100, 1), FNeg(FDiv(Num(100, 1), FAdd(Num(1, 1), rs))))

\* the whole series of line 45, before .iloc[-1]
rsi_series(C, w) == [i \in 1..Len(C) |-> rsi_at(C, w, i)]

\* the value returned for a non-empty C: the last one of the series
calculate_rsi(C, w) == rsi_at(C, w, Len(C))

\* thresholds that take in 30 and 70 themselves
decide_inclusive(r) ==
    IF ~FGreater(r, Num(BuyBelow, 1)) /\ r.k # "nan" THEN "buy"
    ELSE IF ~FLess(r, Num(SellAbove, 1)) /\ r.k # "nan" THEN "sell"
    ELSE "none"

\* a first test written as "not rsi >= 30", which a NaN passes
decide_nan_buys(r) ==
    IF ~(FGreater(r, Num(BuyBelow, 1)) \/ r = Num(BuyBelow, 1)) THEN "buy"
    ELSE IF FGreater(r, Num(SellAbove, 1)) THEN "sell"
    ELSE "none"

\* lines 69-72 and 90-93: the order a cycle places
decide(r) ==
    IF FLess(r, Num(BuyBelow, 1)) THEN "buy"
    ELSE IF FGreater(r, Num(SellAbove, 1)) THEN "sell"
    ELSE "none"

----------------------------------------------------------------------------
(* The inputs *)

RECURSIVE SeqsUpTo(_, _)
SeqsUpTo(S, n) ==
    IF n = 0 THEN {<<>>}
    ELSE LET shorter == SeqsUpTo(S, n - 1)
         IN  shorter \cup {Append(s, x) : s \in {t \in shorter : Len(t) = n - 1}, x \in S}

\* 1 + f + u + d closes: f unchanged, then u rising by 1, then d falling by 1
MkSeries(f, u, d) ==
    [i \in 1..(1 + f + u + d) |->
        IF i <= 1 + f THEN MaxDown + 1
        ELSE IF i <= 1 + f + u THEN MaxDown + 1 + (i - 1 - f)
        ELSE MaxDown + 1 + u - (i - 1 - f - u)]

\* the series calculate_rsi is given when it is called on its own with the
\* default window
RsiSeries ==
    {<<>>} \cup {MkSeries(f, u, d) : f \in 0..MaxFlat, u \in 0..MaxUp, d \in 0..MaxDown}

\* n closes that rise by 1 from one to the next, and n closes that fall by 1
Rising(n)  == [i \in 1..n |-> i]
Falling(n) == [i \in 1..n |-> n + 1 - i]

\* the monotone series calculate_rsi is given with the default window
Ramps ==
    UNION {{Rising(n), Falling(n)} :
             n \in DefaultWindow..(DefaultWindow + MaxExtra)}

\* n closes: n - 2 unchanged, then a rise by up, then a fall by down
MkBars(n, up, down) ==
    [i \in 1..n |->
        IF i <= n - 2 THEN HighMove + 1
        ELSE IF i = n - 1 THEN HighMove + 1 + up
        ELSE HighMove + 1 + up - down]

Moves == {0, LowMove, HighMove}

\* what client.get_aggs may return: no bar at all, or a series
BarSeries ==
    {<<>>} \cup {MkBars(n, up, down) :
                    n \in (DefaultWindow - 1)..(DefaultWindow - 1 + MaxExtra),
                    up \in Moves, down \in Moves}

\* what client.get_last_trade may return
Trades == {Trade(p) : p \in 1..MaxPrice}

----------------------------------------------------------------------------
(* Initial states *)

Unset == [k |-> "unset", n |-> 0, d |-> 1]      \* a name not bound yet
NoOut == [status |-> "none", value |-> Unset]

InitCommon ==
    /\ exc = "none"
    /\ trace = <<>>
    /\ attempt = 0 - 1
    /\ ret = None
    /\ fetched = None
    /\ historical_data = None
    /\ rsi = Unset
    /\ bot_data = None
    /\ bot_rsi = Unset
    /\ rsi_arg = None
    /\ cycle = 0
    /\ slept = 0
    /\ out = NoOut

\* the script, run from its first line; its last statement is the call of
\* simple_trading_bot (line 77) or of realtime_trading_bot (line 115)
InitScript ==
    /\ entry \in {"simple_trading_bot", "realtime_trading_bot"}
    /\ pc = "L24"
    /\ retries = DefaultRetries
    /\ status = "idle"
    /\ data = <<>>
    /\ window = DefaultWindow
    /\ InitCommon

\* get_data_with_retry(symbol, retries) called on its own
InitRetry ==
    /\ entry = "get_data_with_retry"
    /\ pc = "for"
    /\ retries \in MinRetries..MaxRetries
    /\ status = "running"
    /\ data = <<>>
    /\ window = DefaultWindow
    /\ InitCommon

\* calculate_rsi(data, window) called on its own
InitRsi ==
    /\ entry = "calculate_rsi"
    /\ pc = "call"
    /\ retries = DefaultRetries
    /\ status = "idle"
    /\ \/ /\ data \in SeqsUpTo(1..MaxClose, MaxLen)
          /\ window \in 1..MaxWindow
       \/ /\ data \in RsiSeries \cup BarSeries \cup Ramps
          /\ window = DefaultWindow
    /\ InitCommon

Init == InitScript \/ InitRetry \/ InitRsi

----------------------------------------------------------------------------
(* get_data_with_retry, lines 98-111 *)

\* a backoff that grows linearly
backoff_linear(a) == 2 * a

\* time.sleep(2 ** attempt)
backoff(a) == 2 ^ a

\* a test for the last attempt that is one too late
last_attempt_late(a, k) == a = k

\* if attempt == retries - 1
last_attempt(a, k) == a = k - 1

\* the messages of the two handlers
auth_message == "Could not authenticate"
bad_message  == "Error fetching data"

\* a loop that makes its first attempt whatever retries is
ForNext_at_least_once ==
    /\ pc = "for"
    /\ IF attempt + 1 < retries \/ attempt = 0 - 1
       THEN /\ attempt' = attempt + 1
            /\ pc' = "try"
            /\ UNCHANGED <<status, ret>>
       ELSE /\ ret' = None
            /\ status' = "returned"
            /\ pc' = "gdr_exit"
            /\ UNCHANGED attempt
    /\ UNCHANGED <<entry, exc, trace, retries, fetched, botVars, rsiVars>>

\* line 99: for attempt in range(retries); past the range the function ends
\* without a return statement and so returns None
ForNext ==
    /\ pc = "for"
    /\ IF attempt + 1 < retries
       THEN /\ attempt' = attempt + 1
            /\ pc' = "try"
            /\ UNCHANGED <<status, ret>>
       ELSE /\ ret' = None
            /\ status' = "returned"
            /\ pc' = "gdr_exit"
            /\ UNCHANGED attempt
    /\ UNCHANGED <<entry, exc, trace, retries, fetched, botVars, rsiVars>>

\* a try body that binds the data and forgets to return it
TryFetch_no_return ==
    /\ pc = "try"
    /\ \/ \E v \in Trades :
            /\ trace' = Append(trace, Event("fetch", "ok", attempt))
            /\ fetched' = v
            /\ pc' = "for"
            /\ UNCHANGED <<exc, ret, status>>
       \/ \E e \in FetchErrors :
            /\ trace' = Append(trace, Event("fetch", e, attempt))
            /\ exc' = e
            /\ pc' = "except"
            /\ UNCHANGED <<fetched, ret, status>>
    /\ UNCHANGED <<entry, retries, attempt, botVars, rsiVars>>

\* lines 100-101: return get_real_time_data(symbol)
TryFetch ==
    /\ pc = "try"
    /\ \/ \E v \in Trades :
            /\ trace' = Append(trace, Event("fetch", "ok", attempt))
            /\ fetched' = v
            /\ ret' = v
            /\ status' = "returned"
            /\ pc' = "gdr_exit"
            /\ UNCHANGED exc
       \/ \E e \in FetchErrors :
            /\ trace' = Append(trace, Event("fetch", e, attempt))
            /\ exc' = e
            /\ pc' = "except"
            /\ UNCHANGED <<fetched, ret, status>>
    /\ UNCHANGED <<entry, retries, attempt, botVars, rsiVars>>

\* a handler that prints only when it is going to retry
handler_silent_last(message) ==
    /\ IF last_attempt(attempt, retries)
       THEN /\ status' = "raised"
            /\ pc' = "gdr_exit"
            /\ UNCHANGED <<exc, trace>>
       ELSE /\ trace' = trace \o <<Event("print", message, attempt),
                                   Event("sleep", "backoff", backoff(attempt))>>
            /\ exc' = "none"
            /\ pc' = "for"
            /\ UNCHANGED status
    /\ UNCHANGED <<entry, retries, attempt, ret, fetched, botVars, rsiVars>>

\* the body the two handlers share: print, then re-raise on the last attempt
\* or sleep and go round the loop
handler(message) ==
    /\ IF last_attempt(attempt, retries)
       THEN /\ trace' = Append(trace, Event("print", message, attempt))
            /\ status' = "raised"
            /\ pc' = "gdr_exit"
            /\ UNCHANGED exc
       ELSE /\ trace' = trace \o <<Event("print", message, attempt),
                                   Event("sleep", "backoff", backoff(attempt))>>
            /\ exc' = "none"
            /\ pc' = "for"
            /\ UNCHANGED status
    /\ UNCHANGED <<entry, retries, attempt, ret, fetched, botVars, rsiVars>>

\* an AuthError handler whose delay is one second on every attempt
ExceptAuthError_flat ==
    /\ pc = "except"
    /\ exc = "AuthError"
    /\ IF last_attempt(attempt, retries)
       THEN /\ trace' = Append(trace, Event("print", auth_message, attempt))
            /\ status' = "raised"
            /\ pc' = "gdr_exit"
            /\ UNCHANGED exc
       ELSE /\ trace' = trace \o <<Event("print", auth_message, attempt),
                                   Event("sleep", "backoff", 1)>>
            /\ exc' = "none"
            /\ pc' = "for"
            /\ UNCHANGED status
    /\ UNCHANGED <<entry, retries, attempt, ret, fetched, botVars, rsiVars>>

\* lines 102-106
ExceptAuthError ==
    /\ pc = "except"
    /\ exc = "AuthError"
    /\ handler(auth_message)

\* a second handler that catches every exception the first one does not
ExceptBadResponse_broad ==
    /\ pc = "except"
    /\ exc # "AuthError"
    /\ handler(bad_message)

\* lines 107-111
ExceptBadResponse ==
    /\ pc = "except"
    /\ exc = "BadResponse"
    /\ handler(bad_message)

\* the exceptions the try statement has a handler for
caught == {"AuthError", "BadResponse"}

\* no handler matches: the exception leaves the function
Uncaught ==
    /\ pc = "except"
    /\ exc \notin caught
    /\ status' = "raised"
    /\ pc' = "gdr_exit"
    /\ UNCHANGED <<entry, exc, trace, retries, attempt, ret, fetched, botVars, rsiVars>>

\* the call made on its own ends
RetryEnds ==
    /\ entry = "get_data_with_retry"
    /\ pc = "gdr_exit"
    /\ pc' = "done"
    /\ UNCHANGED <<entry, exc, trace, retryVars, botVars, rsiVars>>

----------------------------------------------------------------------------
(* calculate_rsi called on its own *)

RsiCall ==
    /\ entry = "calculate_rsi"
    /\ pc = "call"
    /\ IF calculate_rsi_raises(data)
       THEN /\ out' = [status |-> "raised", value |-> Unset]
            /\ exc' = "KeyError"
       ELSE /\ out' = [status |-> "returned", value |-> calculate_rsi(data, window)]
            /\ UNCHANGED exc
    /\ pc' = "done"
    /\ UNCHANGED <<entry, trace, retryVars, botVars, data, window>>

----------------------------------------------------------------------------
(* The script, lines 22-26 and 48-49 *)

\* lines 22-26: the fetch at the start of the script, and the print of its bars
ScriptFetch ==
    /\ pc = "L24"
    /\ \/ \E bars \in BarSeries :
            /\ historical_data' = Aggs(bars)
            /\ fetched' = Aggs(bars)
            /\ trace' = trace \o <<Event("fetch", "ok", 0),
                                   Event("print", "bars", Len(bars))>>
            /\ pc' = "L48"
            /\ UNCHANGED exc
       \/ \E e \in FetchErrors :
            /\ trace' = Append(trace, Event("fetch", e, 0))
            /\ exc' = e
            /\ pc' = "crashed"
            /\ UNCHANGED <<historical_data, fetched>>
    /\ UNCHANGED <<entry, retries, attempt, status, ret, rsi, bot_data, bot_rsi,
                   rsi_arg, cycle, slept, rsiVars>>

\* lines 48-49, and the call of the polling loop that ends the script
ScriptRsi ==
    /\ pc = "L48"
    /\ rsi_arg' = historical_data
    /\ IF calculate_rsi_raises(historical_data.bars)
       THEN /\ exc' = "KeyError"
            /\ pc' = "crashed"
            /\ UNCHANGED <<rsi, trace>>
       ELSE /\ rsi' = calculate_rsi(historical_data.bars, DefaultWindow)
            /\ trace' = Append(trace, Event("print", "Current RSI", 0))
            /\ pc' = IF entry = "simple_trading_bot" THEN "bot_fetch" ELSE "rt_fetch"
            /\ UNCHANGED exc
    /\ UNCHANGED <<entry, retryVars, historical_data, bot_data, bot_rsi, cycle,
                   slept, rsiVars>>

\* lines 52-54 called from lines 69-72 and 90-93: the prints of place_order
orders_of(side) ==
    IF side = "none" THEN <<>> ELSE <<Event("place_order", side, Quantity)>>

----------------------------------------------------------------------------
(* simple_trading_bot, lines 60-74 *)

\* a loop that catches a failed fetch and goes on to its sleep
BotFetch_swallows ==
    /\ pc = "bot_fetch"
    /\ cycle < MaxCycles
    /\ cycle' = cycle + 1
    /\ rsi_arg' = None
    /\ \/ \E bars \in BarSeries :
            /\ bot_data' = Aggs(bars)
            /\ fetched' = Aggs(bars)
            /\ trace' = <<Event("fetch", "ok", 0)>>
            /\ pc' = "bot_rsi"
            /\ UNCHANGED exc
       \/ \E e \in FetchErrors :
            /\ trace' = <<Event("fetch", e, 0)>>
            /\ exc' = e
            /\ pc' = "bot_sleep"
            /\ UNCHANGED <<bot_data, fetched>>
    /\ UNCHANGED <<entry, retries, attempt, status, ret, historical_data, rsi,
                   bot_rsi, slept, rsiVars>>

\* lines 62-64: the fetch of a cycle, made on the client directly
BotFetch ==
    /\ pc = "bot_fetch"
    /\ cycle < MaxCycles
    /\ cycle' = cycle + 1
    /\ rsi_arg' = None
    /\ \/ \E bars \in BarSeries :
            /\ bot_data' = Aggs(bars)
            /\ fetched' = Aggs(bars)
            /\ trace' = <<Event("fetch", "ok", 0)>>
            /\ pc' = "bot_rsi"
            /\ UNCHANGED exc
       \/ \E e \in FetchErrors :
            /\ trace' = <<Event("fetch", e, 0)>>
            /\ exc' = e
            /\ pc' = "crashed"
            /\ UNCHANGED <<bot_data, fetched>>
    /\ UNCHANGED <<entry, retries, attempt, status, ret, historical_data, rsi,
                   bot_rsi, slept, rsiVars>>

\* lines 66-67
BotRsi ==
    /\ pc = "bot_rsi"
    /\ rsi_arg' = bot_data
    /\ IF calculate_rsi_raises(bot_data.bars)
       THEN /\ exc' = "KeyError"
            /\ pc' = "crashed"
            /\ UNCHANGED <<bot_rsi, trace>>
       ELSE /\ bot_rsi' = calculate_rsi(bot_data.bars, DefaultWindow)
            /\ trace' = Append(trace, Event("print", "Current RSI", 0))
            /\ pc' = "bot_decide"
            /\ UNCHANGED exc
    /\ UNCHANGED <<entry, retryVars, historical_data, rsi, bot_data, cycle, slept,
                   rsiVars>>

\* lines 69-72
BotDecide ==
    /\ pc = "bot_decide"
    /\ trace' = trace \o orders_of(decide(bot_rsi))
    /\ pc' = "bot_sleep"
    /\ UNCHANGED <<entry, exc, retryVars, botVars, rsiVars>>

\* a loop that goes round without waiting
BotSleep_skips ==
    /\ pc = "bot_sleep"
    /\ pc' = "bot_fetch"
    /\ UNCHANGED <<entry, exc, trace, retryVars, botVars, rsiVars>>

\* line 74
BotSleep ==
    /\ pc = "bot_sleep"
    /\ trace' = Append(trace, Event("sleep", "poll", PollSeconds))
    /\ slept' = slept + 1
    /\ pc' = "bot_fetch"
    /\ UNCHANGED <<entry, exc, retryVars, historical_data, rsi, bot_data, bot_rsi,
                   rsi_arg, cycle, rsiVars>>

----------------------------------------------------------------------------
(* realtime_trading_bot, lines 81-95 *)

\* lines 83-85: the call of get_data_with_retry(symbol=symbol)
RtFetch ==
    /\ pc = "rt_fetch"
    /\ cycle < MaxCycles
    /\ cycle' = cycle + 1
    /\ rsi_arg' = None
    /\ trace' = <<>>
    /\ retries' = DefaultRetries
    /\ attempt' = 0 - 1
    /\ status' = "running"
    /\ pc' = "for"
    /\ UNCHANGED <<entry, exc, ret, fetched, historical_data, rsi, bot_data,
                   bot_rsi, slept, rsiVars>>

\* line 85: the call ends; rt_data is bound to what it returned, or its
\* exception leaves the loop
RtFetchEnds ==
    /\ entry = "realtime_trading_bot"
    /\ pc = "gdr_exit"
    /\ IF status = "returned"
       THEN /\ bot_data' = ret
            /\ pc' = "rt_rsi"
       ELSE /\ pc' = "crashed"
            /\ UNCHANGED bot_data
    /\ UNCHANGED <<entry, exc, trace, retryVars, historical_data, rsi, bot_rsi,
                   rsi_arg, cycle, slept, rsiVars>>

\* an RSI computed from what the cycle fetched
RtRsi_fresh ==
    /\ pc = "rt_rsi"
    /\ rsi_arg' = bot_data
    /\ IF calculate_rsi_raises(bot_data.bars)
       THEN /\ exc' = "KeyError"
            /\ pc' = "crashed"
            /\ UNCHANGED <<bot_rsi, trace>>
       ELSE /\ bot_rsi' = calculate_rsi(bot_data.bars, DefaultWindow)
            /\ trace' = Append(trace, Event("print", "Realtime: Current RSI", 0))
            /\ pc' = "rt_decide"
            /\ UNCHANGED exc
    /\ UNCHANGED <<entry, retryVars, historical_data, rsi, bot_data, cycle, slept,
                   rsiVars>>

\* lines 87-88: the argument is the module's historical_data
RtRsi ==
    /\ pc = "rt_rsi"
    /\ rsi_arg' = historical_data
    /\ IF calculate_rsi_raises(historical_data.bars)
       THEN /\ exc' = "KeyError"
            /\ pc' = "crashed"
            /\ UNCHANGED <<bot_rsi, trace>>
       ELSE /\ bot_rsi' = calculate_rsi(historical_data.bars, DefaultWindow)
            /\ trace' = Append(trace, Event("print", "Realtime: Current RSI", 0))
            /\ pc' = "rt_decide"
            /\ UNCHANGED exc
    /\ UNCHANGED <<entry, retryVars, historical_data, rsi, bot_data, cycle, slept,
                   rsiVars>>

\* lines 90-93
RtDecide ==
    /\ pc = "rt_decide"
    /\ trace' = trace \o orders_of(decide(bot_rsi))
    /\ pc' = "rt_sleep"
    /\ UNCHANGED <<entry, exc, retryVars, botVars, rsiVars>>

\* line 95
RtSleep ==
    /\ pc = "rt_sleep"
    /\ trace' = Append(trace, Event("sleep", "poll", PollSeconds))
    /\ slept' = slept + 1
    /\ pc' = "rt_fetch"
    /\ UNCHANGED <<entry, exc, retryVars, historical_data, rsi, bot_data, bot_rsi,
                   rsi_arg, cycle, rsiVars>>

----------------------------------------------------------------------------
(* The specification *)

Next ==
    \/ ForNext
    \/ TryFetch
    \/ ExceptAuthError
    \/ ExceptBadResponse
    \/ Uncaught
    \/ RetryEnds
    \/ RsiCall
    \/ ScriptFetch
    \/ ScriptRsi
    \/ BotFetch
    \/ BotRsi
    \/ BotDecide
    \/ BotSleep
    \/ RtFetch
    \/ RtFetchEnds
    \/ RtRsi
    \/ RtDecide
    \/ RtSleep

Spec == Init /\ [][Next]_vars

----------------------------------------------------------------------------
(* What a call of get_data_with_retry did, read off the trace *)

IsFetch(e)   == e.ev = "fetch"
IsSleep(e)   == e.ev = "sleep"
IsPrint(e)   == e.ev = "print"
IsOrder(e)   == e.ev = "place_order"
IsFailure(e) == e.ev = "fetch" /\ e.what # "ok"

Fetches == SelectSeq(trace, IsFetch)
Sleeps  == SelectSeq(trace, IsSleep)
FetchesAndSleeps == SelectSeq(trace, LAMBDA e : IsFetch(e) \/ IsSleep(e))

RECURSIVE SumN(_, _)
SumN(S, i) == IF i = 0 THEN 0 ELSE S[i].n + SumN(S, i - 1)

\* control is inside get_data_with_retry
InRetry == status # "idle" /\ pc \in {"for", "try", "except"}

\* the call has just ended: it returned or an exception left it
RetryEnded == status \in {"returned", "raised"} /\ pc \in {"gdr_exit", "done"}

\* k fetches that all fail with BadResponse, a sleep of 2^i after the fetch
\* of attempt i except after the last
AllBadRun(k) ==
    [j \in 1..(2 * k - 1) |->
        IF j % 2 = 1
        THEN Event("fetch", "BadResponse", (j - 1) \div 2)
        ELSE Event("sleep", "backoff", 2 ^ ((j \div 2) - 1))]

----------------------------------------------------------------------------
\* C1: with retries = k >= 1 and a fetch that raises BadResponse on every
\* call, a call of get_data_with_retry that has ended made exactly k fetches
\* and k-1 sleeps of 1, 2, ..., 2^(k-2) seconds, one between two consecutive
\* fetches and none after the last, and ended by raising BadResponse.
C1_RetryCount ==
    (/\ RetryEnded
     /\ retries >= 1
     /\ \A j \in 1..Len(Fetches) : Fetches[j].what = "BadResponse")
    => /\ FetchesAndSleeps = AllBadRun(retries)
       /\ status = "raised"
       /\ exc = "BadResponse"

C1_Witness ==
    /\ RetryEnded
    /\ retries >= 3
    /\ Len(Fetches) = retries
    /\ \A j \in 1..Len(Fetches) : Fetches[j].what = "BadResponse"
    /\ Len(Sleeps) = retries - 1
    /\ status = "raised"

\* C2: a fetch failure that is neither AuthError nor BadResponse, on any
\* attempt, is the last thing get_data_with_retry does: no fetch, no sleep
\* and no print follow it, and the call ends by raising that error.
C2_NonRetryablePropagates ==
    (status # "idle" /\ pc \in {"for", "try", "except", "gdr_exit", "done"})
    => \A j \in 1..Len(trace) :
          (IsFetch(trace[j]) /\ trace[j].what \notin {"ok", "AuthError", "BadResponse"})
          => /\ j = Len(trace)
             /\ trace[j].n = attempt
             /\ Len(Fetches) = attempt + 1
             /\ exc = trace[j].what
             /\ pc \in {"except", "gdr_exit", "done"}
             /\ pc # "except" => status = "raised"

C2_Witness ==
    /\ RetryEnded
    /\ status = "raised"
    /\ exc = "OtherError"
    /\ attempt = 1
    /\ retries >= 3
    /\ Len(Fetches) = 2
    /\ Len(Sleeps) = 1

\* C3: a fetch that succeeds on attempt i, after i failures that were all
\* AuthError or BadResponse, ends get_data_with_retry: the call returns the
\* value that fetch produced, and no fetch and no sleep follow it.
C3_SuccessReturns ==
    (status # "idle" /\ pc \in {"for", "try", "except", "gdr_exit", "done"})
    => \A j \in 1..Len(trace) :
          (IsFetch(trace[j]) /\ trace[j].what = "ok")
          => /\ j = Len(trace)
             /\ trace[j].n = attempt
             /\ attempt \in 0..(retries - 1)
             /\ Len(Fetches) = attempt + 1
             /\ \A i \in 1..attempt : Fetches[i].what \in {"AuthError", "BadResponse"}
             /\ RetryEnded
             /\ status = "returned"
             /\ ret = fetched
             /\ ret \in Trades
             /\ exc = "none"

C3_Witness ==
    /\ RetryEnded
    /\ status = "returned"
    /\ attempt = 2
    /\ ret = Trade(2)
    /\ Len(Sleeps) = 2

----------------------------------------------------------------------------
TotalSlept == SumN(Sleeps, Len(Sleeps))

\* 2^0 + 2^1 + ... + 2^(k-2), for k >= 1
SleepBound(k) == 2 ^ (k - 1) - 1

Retryable(e) == e.what \in {"AuthError", "BadResponse"}

\* the first m attempts were made and failed with AuthError or BadResponse
FirstFailed(m) ==
    /\ Len(Fetches) >= m
    /\ \A j \in 1..m : Retryable(Fetches[j])

\* C4 as stated, for the calls that have ended with k >= 2: at most k
\* fetches, at most 2^(k-1) - 1 seconds slept, and that many slept only when
\* all k attempts failed with AuthError or BadResponse.
C4_BoundOnlyWhenAllFail ==
    (RetryEnded /\ retries >= 2)
    => /\ Len(Fetches) <= retries
       /\ TotalSlept <= SleepBound(retries)
       /\ TotalSlept = SleepBound(retries) => FirstFailed(retries)

\* C4, amended: with retries = k >= 1 a call never makes more than k fetches
\* and never sleeps more than 2^(k-1) - 1 seconds in total, and it has slept
\* that long only when its first k-1 attempts failed with AuthError or
\* BadResponse; a call that ended has slept that long exactly when they did,
\* whatever the k-th attempt did.
C4_SleepBound ==
    (status # "idle" /\ retries >= 1 /\ (InRetry \/ RetryEnded))
    => /\ Len(Fetches) <= retries
       /\ TotalSlept <= SleepBound(retries)
       /\ TotalSlept = SleepBound(retries) => FirstFailed(retries - 1)
       /\ (RetryEnded /\ FirstFailed(retries - 1)) => TotalSlept = SleepBound(retries)

C4_Witness ==
    /\ RetryEnded
    /\ retries >= 3
    /\ TotalSlept = SleepBound(retries)
    /\ Len(Fetches) = retries
    /\ status = "returned"

\* C5 as stated: once a handler has had its turn, every failed fetch of the
\* call, of whatever kind, is followed at once by a printed line.
C5_AllFailuresLogged ==
    (status # "idle" /\ pc \in {"for", "try", "gdr_exit", "done"})
    => \A j \in 1..Len(trace) :
          IsFailure(trace[j]) => (j < Len(trace) /\ IsPrint(trace[j + 1]))

\* C5, amended: every fetch that fails with AuthError or BadResponse, on
\* every attempt including the last, is followed at once by the line of its
\* handler, before the sleep or the re-raise; a fetch that fails with any
\* other error leaves the call with no line printed for it.
C5_CaughtFailuresLogged ==
    (status # "idle" /\ pc \in {"for", "try", "gdr_exit", "done"})
    => \A j \in 1..Len(trace) :
          IsFailure(trace[j])
          => IF Retryable(trace[j])
             THEN /\ j < Len(trace)
                  /\ IsPrint(trace[j + 1])
                  /\ trace[j + 1].n = trace[j].n
                  /\ trace[j].what = "AuthError" <=> trace[j + 1].what = "Could not authenticate"
                  /\ trace[j].what = "BadResponse" <=> trace[j + 1].what = "Error fetching data"
             ELSE /\ j = Len(trace)
                  /\ status = "raised"

C5_Witness ==
    /\ RetryEnded
    /\ status = "raised"
    /\ retries >= 2
    /\ Len(Fetches) = retries
    /\ IsPrint(trace[Len(trace)])
    /\ trace[Len(trace)].n = retries - 1
    /\ exc = "BadResponse"

\* C6: when the k-th attempt fails with AuthError or BadResponse, the call
\* raises the error of that attempt, whatever the kinds of the failures
\* before it; the k attempts are counted together, and the sleep after
\* attempt i is 2^i seconds whatever the kind of its failure.
C6_FinalErrorKind ==
    (RetryEnded /\ retries >= 1 /\ FirstFailed(retries))
    => /\ status = "raised"
       /\ exc = Fetches[retries].what
       /\ attempt = retries - 1
       /\ Len(Fetches) = retries
       /\ Len(FetchesAndSleeps) = 2 * retries - 1
       /\ \A i \in 0..(retries - 1) : FetchesAndSleeps[2 * i + 1] = Fetches[i + 1]
       /\ \A i \in 0..(retries - 2) :
             FetchesAndSleeps[2 * i + 2] = Event("sleep", "backoff", 2 ^ i)

C6_Witness ==
    /\ RetryEnded
    /\ retries >= 3
    /\ FirstFailed(retries)
    /\ Fetches[1].what = "BadResponse"
    /\ Fetches[2].what = "AuthError"
    /\ Fetches[retries].what = "AuthError"
    /\ exc = "AuthError"
    /\ status = "raised"

----------------------------------------------------------------------------
(* What a polling cycle did *)

Orders == SelectSeq(trace, IsOrder)

\* the cycle has computed its RSI and taken its decision
Decided == pc \in {"bot_sleep", "rt_sleep"}

\* a polling loop has been entered and an exception has ended it
LoopCrashed == cycle >= 1 /\ pc = "crashed"

\* C7: in every polling cycle of either loop, a buy order is placed exactly
\* when the RSI of the cycle is a number below 30, a sell order exactly when
\* it is a number above 70, and no order otherwise (RSI 30, RSI 70, RSI
\* not-a-number); a cycle places at most one order, and none before its
\* decision.
C7_OrderIffThreshold ==
    /\ (cycle >= 1 /\ pc \in {"bot_rsi", "bot_decide", "rt_rsi", "rt_decide", "for",
                              "try", "except", "gdr_exit"})
       => Orders = <<>>
    /\ Decided
       => /\ Len(Orders) <= 1
          /\ (\E j \in 1..Len(Orders) : Orders[j].what = "buy")
             <=> (bot_rsi.k = "num" /\ bot_rsi.n < 30 * bot_rsi.d)
          /\ (\E j \in 1..Len(Orders) : Orders[j].what = "sell")
             <=> (bot_rsi.k = "num" /\ bot_rsi.n > 70 * bot_rsi.d)
          /\ \A j \in 1..Len(Orders) : Orders[j].what \in {"buy", "sell"} /\ Orders[j].n = 10

C7_Witness ==
    /\ Decided
    /\ cycle = 2
    /\ bot_rsi = Num(0, 1)
    /\ Orders = <<Event("place_order", "buy", 10)>>

\* C8 as stated, its safety half: when an exception has ended a polling
\* loop, it is one that get_data_with_retry raised; no direct fetch and no
\* RSI computation ends a loop.
C8_OnlyRetryingFetcherEndsLoop ==
    LoopCrashed => (status = "raised" /\ exc \in FetchErrors)

\* C9 as stated, its second half: in a polling cycle of either loop, the
\* value the cycle's fetch returned is the argument of the cycle's RSI
\* computation.
C9_FetchedValueFeedsRsi ==
    (cycle >= 1 /\ pc \in {"bot_decide", "rt_decide"})
    => (rsi_arg = bot_data /\ rsi_arg = fetched)

----------------------------------------------------------------------------
(* calculate_rsi called on its own *)

RsiEnded == entry = "calculate_rsi" /\ pc = "done"

\* the sums of the rises and of the falls between consecutive closes of C
RECURSIVE Rises(_, _)
Rises(C, i) ==
    IF i <= 1 THEN 0
    ELSE (IF C[i] > C[i - 1] THEN C[i] - C[i - 1] ELSE 0) + Rises(C, i - 1)

RECURSIVE Falls(_, _)
Falls(C, i) ==
    IF i <= 1 THEN 0
    ELSE (IF C[i] < C[i - 1] THEN C[i - 1] - C[i] ELSE 0) + Falls(C, i - 1)

\* C10 as stated: on a series of n <= window bars calculate_rsi fails (the
\* spec names the error InsufficientDataError; any exception is taken for
\* it here) and returns no number.
C10_InsufficientDataError ==
    (RsiEnded /\ Len(data) <= window) => out.status = "raised"

\* C10, amended: on a non-empty series of n <= window bars calculate_rsi
\* raises nothing and returns a float: not-a-number when n < window; when
\* n = window, 100 * G / (G + L) with G and L the sums of the rises and of
\* the falls between consecutive closes, and not-a-number when both are 0.
\* On an empty series it raises KeyError.
C10_ShortSeriesReturns ==
    (RsiEnded /\ Len(data) <= window)
    => IF Len(data) = 0
       THEN out.status = "raised" /\ exc = "KeyError"
       ELSE /\ out.status = "returned"
            /\ exc = "none"
            /\ Len(data) < window => out.value = NaN
            /\ Len(data) = window
               => LET G == Rises(data, Len(data))
                      L == Falls(data, Len(data))
                  IN  out.value = IF G + L = 0 THEN NaN ELSE Num(100 * G, G + L)

C10_Witness ==
    /\ RsiEnded
    /\ Len(data) = window
    /\ window = DefaultWindow
    /\ out.status = "returned"
    /\ out.value = Num(30, 1)

----------------------------------------------------------------------------
\* the sums of the rises and of the falls among the last w differences of C,
\* for Len(C) > w
WindowRises(C, w) == Rises(C, Len(C)) - Rises(C, Len(C) - w)
WindowFalls(C, w) == Falls(C, Len(C)) - Falls(C, Len(C) - w)

\* C11 as stated, its second half: on a series of n > window bars whose
\* average loss over the final window is 0, rising or flat, calculate_rsi
\* returns a number and not not-a-number.
C11_ZeroLossSaturates ==
    (RsiEnded /\ Len(data) > window /\ WindowFalls(data, window) = 0)
    => (out.status = "returned" /\ out.value.k = "num")

\* C11, amended: on a series of n > window bars calculate_rsi returns
\* 100 * G / (G + L), a value in [0, 100], when the average loss L over the
\* final window is > 0; it returns 100 when L = 0 and the average gain G is
\* > 0; and it returns not-a-number when both are 0 (flat closes).
C11_RangeAndZeroLoss ==
    (RsiEnded /\ Len(data) > window)
    => LET G == WindowRises(data, window)
           L == WindowFalls(data, window)
           v == out.value
       IN  /\ out.status = "returned"
           /\ L > 0 => /\ v = Num(100 * G, G + L)
                       /\ v.k = "num"
                       /\ 0 <= v.n
                       /\ v.n <= 100 * v.d
           /\ (L = 0 /\ G > 0) => v = Num(100, 1)
           /\ (L = 0 /\ G = 0) => v = NaN

C11_Witness ==
    /\ RsiEnded
    /\ window = DefaultWindow
    /\ Len(data) = DefaultWindow + 1
    /\ WindowFalls(data, window) = 0
    /\ WindowRises(data, window) = 0
    /\ out.value = NaN

\* the last w differences of C are all rises, all falls
RisingWindow(C, w)  == \A i \in (Len(C) - w + 1)..Len(C) : C[i] > C[i - 1]
FallingWindow(C, w) == \A i \in (Len(C) - w + 1)..Len(C) : C[i] < C[i - 1]

\* C12: on a series of n > window closes calculate_rsi returns exactly 100
\* when the closes rise strictly over the final window, and exactly 0 when
\* they fall strictly over it.
C12_MonotoneWindow ==
    (RsiEnded /\ Len(data) > window)
    => /\ out.status = "returned"
       /\ RisingWindow(data, window) => out.value = Num(100, 1)
       /\ FallingWindow(data, window) => out.value = Num(0, 1)

C12_Witness ==
    /\ RsiEnded
    /\ window = DefaultWindow
    /\ Len(data) = DefaultWindow + 1
    /\ FallingWindow(data, window)
    /\ out.value = Num(0, 1)

\* C13 as stated: the RSI is defined at no index before the one that ends
\* `window` differences (the index window + 1, counted from 1), so that a
\* series of exactly `window` closes has no RSI value and a series of
\* window + 1 closes at most one.
C13_DefinedFromWindowOn ==
    (RsiEnded /\ Len(data) >= 1)
    => \A i \in 1..Len(data) : i <= window => rsi_series(data, window)[i] = NaN

----------------------------------------------------------------------------
\* the orders an RSI of r calls for
OrdersFor(r) ==
    IF r.k = "num" /\ r.n < 30 * r.d THEN <<Event("place_order", "buy", 10)>>
    ELSE IF r.k = "num" /\ r.n > 70 * r.d THEN <<Event("place_order", "sell", 10)>>
    ELSE <<>>

\* C14: once realtime_trading_bot runs, historical_data and the RSI the
\* script computed from it at line 48 never change; the argument of every
\* cycle's RSI computation is historical_data, not the value
\* get_data_with_retry returned; the RSI of every cycle is the RSI of line
\* 48 and the orders of every cycle are the ones that RSI calls for.  So
\* the RSI and the orders are the same in every cycle and in any two runs
\* that differ only in what the real-time fetch returns.
C14_RealtimeRsiIsStale ==
    [][(entry = "realtime_trading_bot" /\ cycle' >= 1)
       => /\ historical_data' = historical_data
          /\ rsi' = rsi
          /\ rsi_arg' # None => (rsi_arg' = historical_data /\ rsi_arg' # bot_data')
          /\ bot_rsi' # Unset => bot_rsi' = rsi
          /\ pc' = "rt_sleep" => Orders' = OrdersFor(rsi)]_vars

C14_Witness ==
    /\ entry = "realtime_trading_bot"
    /\ cycle = 2
    /\ pc = "rt_sleep"
    /\ bot_data = Trade(2)
    /\ rsi_arg = historical_data
    /\ bot_rsi = rsi
    /\ rsi = Num(100, 1)
    /\ Orders = <<Event("place_order", "sell", 10)>>

----------------------------------------------------------------------------
(* simple_trading_bot, cycle by cycle *)

InSimpleLoop == entry = "simple_trading_bot" /\ cycle >= 1

FetchOk   == Event("fetch", "ok", 0)
RsiLine   == Event("print", "Current RSI", 0)
PollSleep == Event("sleep", "poll", 300)

----------------------------------------------------------------------------
\* C16: a call of get_data_with_retry with retries >= 1 ends either by
\* returning the value of a fetch that succeeded, its last act, or by
\* raising the error of its last fetch; a call with retries <= 0 makes no
\* fetch, no sleep and no print and returns None without raising.
C16_HowACallEnds ==
    RetryEnded
    => IF retries >= 1
       THEN /\ Len(trace) >= 1
            /\ \/ /\ status = "returned"
                  /\ trace[Len(trace)] = Event("fetch", "ok", attempt)
                  /\ ret = fetched
                  /\ ret \in Trades
                  /\ exc = "none"
               \/ /\ status = "raised"
                  /\ exc \in FetchErrors
                  /\ Fetches[Len(Fetches)].what = exc
       ELSE /\ trace = <<>>
            /\ status = "returned"
            /\ ret = None
            /\ exc = "none"
            /\ attempt = 0 - 1

C16_Witness ==
    /\ RetryEnded
    /\ retries = 0
    /\ pc = "done"
    /\ trace = <<>>
    /\ status = "returned"
    /\ ret = None

----------------------------------------------------------------------------
\* an RSI that calls for no order: not-a-number, or a number in [30, 70]
NoSignal(r) == r = NaN \/ (r.k = "num" /\ 30 * r.d <= r.n /\ r.n <= 70 * r.d)

\* C17: a cycle of either loop whose RSI is not-a-number places no order
\* and raises nothing, as a cycle whose RSI is in [30, 70] does: its
\* decision adds nothing to what the cycle did, the next step is the sleep
\* of 300 s, and the step after that starts the next cycle.
C17_NaNIsNeutral ==
    /\ [](Decided => /\ Orders = <<>> <=> NoSignal(bot_rsi)
                     /\ bot_rsi = NaN => exc = "none")
    /\ [][(pc \in {"bot_decide", "rt_decide"} /\ bot_rsi = NaN)
          => /\ pc' \in {"bot_sleep", "rt_sleep"}
             /\ trace' = trace
             /\ exc' = "none"]_vars
    /\ [][(pc \in {"bot_sleep", "rt_sleep"} /\ bot_rsi = NaN)
          => /\ pc' \in {"bot_fetch", "rt_fetch"}
             /\ trace' = Append(trace, Event("sleep", "poll", 300))
             /\ slept' = slept + 1
             /\ exc' = "none"]_vars
    /\ [][(pc \in {"bot_fetch", "rt_fetch"} /\ cycle >= 1) => cycle' = cycle + 1]_vars

C17_Witness ==
    /\ entry = "simple_trading_bot"
    /\ cycle = 2
    /\ slept = 1
    /\ pc = "bot_rsi"
    /\ bot_rsi = NaN
    /\ exc = "none"

----------------------------------------------------------------------------
\* the cycle under way of simple_trading_bot has a fetch that failed
FetchFailedInLoop == InSimpleLoop /\ \E j \in 1..Len(trace) : IsFailure(trace[j])

\* C18: in simple_trading_bot a fetch that fails, whatever the error, is
\* the only thing its cycle does and the last thing the loop does: the
\* error leaves the loop as it was raised, the retry wrapper was never
\* entered, and no sleep, RSI computation or order follows in that cycle or
\* after it.
C18_FirstFailureEndsLoop ==
    /\ [](FetchFailedInLoop
          => /\ pc = "crashed"
             /\ Len(trace) = 1
             /\ trace[1].n = 0
             /\ exc = trace[1].what
             /\ exc \in FetchErrors
             /\ status = "idle"
             /\ rsi_arg = None
             /\ slept = cycle - 1)
    /\ []((InSimpleLoop /\ pc = "crashed" /\ ~FetchFailedInLoop)
          => (exc = "KeyError" /\ trace = <<FetchOk>>))
    /\ [][~(entry = "simple_trading_bot" /\ pc = "crashed")]_vars

C18_Witness ==
    /\ entry = "simple_trading_bot"
    /\ cycle = 2
    /\ slept = 1
    /\ pc = "crashed"
    /\ trace = <<Event("fetch", "OtherError", 0)>>
    /\ exc = "OtherError"

====
